---- MODULE Spec2Model ----
(***************************************************************************)
(* State-machine model of the HPKE encryption contexts and key schedule    *)
(* (lib/hpke/src/hpke.cpp) and of the MLS message framing                  *)
(* (src/messages.cpp): GroupInfo, Welcome and MLSPlaintext.                *)
(*                                                                         *)
(* A byte string is a sequence of naturals 0..255.  An optional value is a *)
(* sequence of length 0 (absent) or 1 (present).  An operation that can    *)
(* throw returns a record with the fields ok and err.                      *)
(***************************************************************************)
EXTENDS Integers, Sequences, FiniteSets, TLC

\* ------------------------------------------------------------------ bounds

\* Width in bits of the sequence counter (uint64_t in the code).
SeqBits == 2

\* Number of messages sealed and opened after a setup in SpecHpke.
MaxMsgs == 2

\* Number of operations applied to an MLSPlaintext after its construction.
MaxOps == 3

\* The encrypt calls on one Welcome.
MaxSecrets == 2

\* ------------------------------------------------------- byte primitives

RECURSIVE I2OSP(_, _)
\* Big-endian encoding of n in exactly k bytes.
I2OSP(n, k) == IF k = 0 THEN <<>> ELSE Append(I2OSP(n \div 256, k - 1), (n % 256))

RECURSIVE XorBits(_, _, _)
XorBits(a, b, n) ==
  IF n = 0 THEN 0
  ELSE IF a = 0 THEN b
  ELSE IF b = 0 THEN a
  ELSE (((a % 2) + (b % 2)) % 2) + 2 * XorBits(a \div 2, b \div 2, n - 1)

\* bytes operator^ : bytewise exclusive or of two strings of equal size.
Xor(x, y) == [i \in 1..Len(x) |-> XorBits(x[i], y[i], 8)]

RECURSIVE Concat(_)
\* Concatenation of a sequence of byte strings.
Concat(ss) == IF ss = <<>> THEN <<>> ELSE Head(ss) \o Concat(Tail(ss))

\* tls::vector<k>::encode : k-byte big-endian length, then the bytes.
VecEncode(k, data) == I2OSP(Len(data), k) \o data

RECURSIVE OS2IP(_)
\* Big-endian decoding of a byte string.
OS2IP(s) == IF s = <<>> THEN 0 ELSE (256 * OS2IP(SubSeq(s, 1, Len(s) - 1))) + s[Len(s)]

\* An operation's exceptional result.
Throw(msg) == [ok |-> FALSE, err |-> msg]

\* --------------------------------------------------------- KDF (HKDF)

RECURSIVE MixRange(_, _, _)
\* Sum over lo..hi of (s[i] + 1) * (i * i + i + 41) modulo the prime 32749.
MixRange(s, lo, hi) ==
  IF lo > hi THEN 0
  ELSE IF lo = hi THEN ((s[lo] + 1) * ((lo * lo) + lo + 41)) % 32749
  ELSE LET mid == (lo + hi) \div 2
       IN  (MixRange(s, lo, mid) + MixRange(s, mid + 1, hi)) % 32749

\* Position-sensitive digest of a byte string (stands for the hash).
Mix(s, h) == (h + MixRange(s, 1, Len(s))) % 32749

\* Output block of the given size derived from a digest value.
Stretch(h, size) == [i \in 1..size |-> (h + ((h \div 256) * i) + i) % 256]

\* KDF::hash_size (SHA-256).
Nh == 32

\* KDF::extract(salt, ikm)
extract(salt, ikm) == Stretch(Mix(<<1>> \o VecEncode(2, salt) \o ikm, 7), Nh)

\* KDF::expand(prk, info, size)
expand(prk, info, size) == Stretch(Mix(<<2>> \o VecEncode(2, prk) \o info, 7), size)

label_exp == <<101, 120, 112>>
label_hpke == <<72, 80, 75, 69>>
label_hpke_05 == <<72, 80, 75, 69, 45, 48, 53, 32>>
label_info_hash == <<105, 110, 102, 111, 95, 104, 97, 115, 104>>
label_key == <<107, 101, 121>>
label_nonce == <<110, 111, 110, 99, 101>>
label_psk_hash == <<112, 115, 107, 95, 104, 97, 115, 104>>
label_psk_id_hash == <<112, 115, 107, 95, 105, 100, 95, 104, 97, 115, 104>>
label_sec == <<115, 101, 99>>
label_secret == <<115, 101, 99, 114, 101, 116>>

\* KDF::labeled_extract
labeled_extract(suite_id_in, salt, label, ikm) ==
  extract(salt, label_hpke_05 \o suite_id_in \o label \o ikm)

\* KDF::labeled_expand
labeled_expand(suite_id_in, prk, label, info, size) ==
  expand(prk, I2OSP(size, 2) \o label_hpke_05 \o suite_id_in \o label \o info, size)

\* --------------------------------------------------------------- AEAD

\* AEAD::key_size and AEAD::nonce_size (AES-128-GCM).
Nk == 16
Nn == 12

\* AEAD::seal : an ideal AEAD, the ciphertext binds key, nonce, aad and pt.
aead_seal(key, nonce, aad, pt) ==
  VecEncode(1, key) \o VecEncode(1, nonce) \o VecEncode(1, aad) \o pt

\* AEAD::open : the plaintext when key, nonce and aad are those of the seal,
\* absence otherwise.
aead_open(key, nonce, aad, ct) ==
  LET hdr == VecEncode(1, key) \o VecEncode(1, nonce) \o VecEncode(1, aad)
  IN  IF Len(ct) >= Len(hdr) /\ SubSeq(ct, 1, Len(hdr)) = hdr
      THEN << SubSeq(ct, Len(hdr) + 1, Len(ct)) >>
      ELSE <<>>

\* ---------------------------------------------------------------- KEM

RECURSIVE PowMod(_, _, _)
\* b^e modulo m, by repeated squaring.
PowMod(b, e, m) ==
  IF e = 0 THEN 1
  ELSE LET h == PowMod(b, e \div 2, m)
       IN  (((h * h) % m) * (IF e % 2 = 1 THEN b ELSE 1)) % m

\* Public key of a private key: g^sk in the group of integers modulo 23, g = 5.
dh_public(sk) == PowMod(5, sk, 23)

\* Diffie-Hellman of a private key with a public key.
dh(sk, pk) == <<PowMod(pk, sk, 23)>>

\* KEM::serialize_public
serialize_public(pk) == <<pk>>

\* Suite identifier of the KEM: "KEM" || I2OSP(kem_id, 2).
kem_suite_id == <<75, 69, 77>> \o I2OSP(32, 2)

\* DHKEM: shared secret from the DH output and the KEM context.
extract_and_expand(dh_out, kem_context) ==
  LET prk == labeled_extract(kem_suite_id, <<>>, <<100, 104>>, dh_out)
  IN  labeled_expand(kem_suite_id, prk, <<112, 114, 107>>, kem_context, Nh)

\* KEM::encap(pkR), with the ephemeral private key skE drawn by the caller.
encap(pkR, skE) ==
  LET enc == serialize_public(dh_public(skE))
  IN  [shared_secret |-> extract_and_expand(dh(skE, pkR), enc \o serialize_public(pkR)),
       enc |-> enc]

\* KEM::decap(enc, skR)
decap(enc, skR) ==
  extract_and_expand(dh(skR, enc[1]), enc \o serialize_public(dh_public(skR)))

\* KEM::auth_encap(pkR, skS)
auth_encap(pkR, skS, skE) ==
  LET enc == serialize_public(dh_public(skE))
  IN  [shared_secret |->
         extract_and_expand(dh(skE, pkR) \o dh(skS, pkR),
           enc \o serialize_public(pkR) \o serialize_public(dh_public(skS))),
       enc |-> enc]

\* KEM::auth_decap(enc, pkS, skR)
auth_decap(enc, pkS, skR) ==
  extract_and_expand(dh(skR, enc[1]) \o dh(skR, pkS),
    enc \o serialize_public(dh_public(skR)) \o serialize_public(pkS))

\* ------------------------------------------------- encryption contexts

\* std::numeric_limits<uint64_t>::max(), at the model's counter width.
SeqMax == (2 ^ SeqBits) - 1

\* Context::Context : seq starts at 0.
Context(suite_in, key_in, nonce_in, exporter_secret_in) ==
  [suite |-> suite_in, key |-> key_in, nonce |-> nonce_in,
   exporter_secret |-> exporter_secret_in, seq |-> 0]

\* operator==(const Context&, const Context&)
ContextEq(lhs, rhs) ==
  /\ lhs.suite = rhs.suite
  /\ lhs.key = rhs.key
  /\ lhs.nonce = rhs.nonce
  /\ lhs.exporter_secret = rhs.exporter_secret
  /\ lhs.seq = rhs.seq

\* Context::current_nonce
current_nonce(c) == Xor(I2OSP(c.seq, Nn), c.nonce)

\* Context::increment_seq without the overflow check: the counter wraps.
increment_seq_wrap(c) ==
  [ok |-> TRUE, err |-> "", ctx |-> [c EXCEPT !.seq = (c.seq + 1) % (SeqMax + 1)]]

\* Context::increment_seq stepping the counter by two.
increment_seq_twice(c) ==
  IF c.seq >= SeqMax - 1
  THEN [ok |-> FALSE, err |-> "Sequence number overflow", ctx |-> c]
  ELSE [ok |-> TRUE, err |-> "", ctx |-> [c EXCEPT !.seq = c.seq + 2]]

\* Context::increment_seq
increment_seq(c) ==
  IF c.seq = SeqMax
  THEN [ok |-> FALSE, err |-> "Sequence number overflow", ctx |-> c]
  ELSE [ok |-> TRUE, err |-> "", ctx |-> [c EXCEPT !.seq = c.seq + 1]]

\* SenderContext::seal : the AEAD runs first, then the counter steps; when the
\* step throws no ciphertext is returned.
seal(c, aad, pt) ==
  LET nonce == current_nonce(c)
      ct == aead_seal(c.key, nonce, aad, pt)
      inc == increment_seq(c)
  IN  [ok |-> inc.ok, err |-> inc.err, ctx |-> inc.ctx, nonce |-> nonce,
       ct |-> IF inc.ok THEN <<ct>> ELSE <<>>]

\* ReceiverContext::open stepping the counter only when the AEAD succeeds.
open_rollback(c, aad, ct) ==
  LET nonce == current_nonce(c)
      maybe_pt == aead_open(c.key, nonce, aad, ct)
      inc == IF maybe_pt = <<>> /\ c.seq # SeqMax
             THEN [ok |-> TRUE, err |-> "", ctx |-> c]
             ELSE increment_seq(c)
  IN  [ok |-> inc.ok, err |-> inc.err, ctx |-> inc.ctx, nonce |-> nonce,
       pt |-> IF inc.ok THEN maybe_pt ELSE <<>>]

\* ReceiverContext::open
open(c, aad, ct) ==
  LET nonce == current_nonce(c)
      maybe_pt == aead_open(c.key, nonce, aad, ct)
      inc == increment_seq(c)
  IN  [ok |-> inc.ok, err |-> inc.err, ctx |-> inc.ctx, nonce |-> nonce,
       pt |-> IF inc.ok THEN maybe_pt ELSE <<>>]

\* ---------------------------------------------------------------- HPKE

\* HPKE::Mode
Mode_base == 0
Mode_psk == 1
Mode_auth == 2
Mode_auth_psk == 3

Modes == {Mode_base, Mode_psk, Mode_auth, Mode_auth_psk}

default_psk == <<>>
default_psk_id == <<>>

\* suite_id(kem_id, kdf_id, aead_id)
suite_id(kem_id, kdf_id, aead_id) ==
  label_hpke \o I2OSP(kem_id, 2) \o I2OSP(kdf_id, 2) \o I2OSP(aead_id, 2)

\* HPKE::HPKE : the suite DHKEM_X25519_SHA256, HKDF_SHA256, AES_128_GCM.
suite == suite_id(32, 1, 1)

\* HPKE::verify_psk_inputs accepting whenever psk and psk_id agree in emptiness.
verify_psk_inputs_nomode(mode, psk, psk_id) ==
  (psk # default_psk) = (psk_id # default_psk_id)

\* HPKE::verify_psk_inputs
verify_psk_inputs(mode, psk, psk_id) ==
  LET got_psk == (psk # default_psk)
      got_psk_id == (psk_id # default_psk_id)
  IN  IF got_psk # got_psk_id
      THEN FALSE
      ELSE \/ (~got_psk /\ (mode = Mode_base \/ mode = Mode_auth))
           \/ (got_psk /\ (mode = Mode_psk \/ mode = Mode_auth_psk))

\* HPKE::key_schedule
key_schedule(mode, shared_secret, info, psk, psk_id) ==
  IF ~verify_psk_inputs(mode, psk, psk_id)
  THEN [ok |-> FALSE, err |-> "Invalid PSK inputs", ctx |-> <<>>]
  ELSE
    LET psk_id_hash == labeled_extract(suite, <<>>, label_psk_id_hash, psk_id)
        info_hash == labeled_extract(suite, <<>>, label_info_hash, info)
        mode_bytes == <<mode>>
        key_schedule_context == mode_bytes \o psk_id_hash \o info_hash
        psk_hash == labeled_extract(suite, <<>>, label_psk_hash, psk)
        secret == labeled_extract(suite, psk_hash, label_secret, shared_secret)
        key == labeled_expand(suite, secret, label_key, key_schedule_context, Nk)
        nonce == labeled_expand(suite, secret, label_nonce, key_schedule_context, Nn)
        exporter_secret ==
          labeled_expand(suite, secret, label_exp, key_schedule_context, Nh)
    IN  [ok |-> TRUE, err |-> "",
         ctx |-> << Context(suite, key, nonce, exporter_secret) >>]

\* std::make_pair(enc, SenderContext(ctx)), or the exception of key_schedule.
SenderInfo(enc, ks) == [ok |-> ks.ok, err |-> ks.err, enc |-> enc, ctx |-> ks.ctx]

\* HPKE::setup_base_s
setup_base_s(pkR, info, skE) ==
  LET kem == encap(pkR, skE)
  IN  SenderInfo(kem.enc,
        key_schedule(Mode_base, kem.shared_secret, info, default_psk, default_psk_id))

\* HPKE::setup_base_r
setup_base_r(enc, skR, info) ==
  key_schedule(Mode_base, decap(enc, skR), info, default_psk, default_psk_id)

\* HPKE::setup_psk_s
setup_psk_s(pkR, info, psk, psk_id, skE) ==
  LET kem == encap(pkR, skE)
  IN  SenderInfo(kem.enc, key_schedule(Mode_psk, kem.shared_secret, info, psk, psk_id))

\* HPKE::setup_psk_r
setup_psk_r(enc, skR, info, psk, psk_id) ==
  key_schedule(Mode_psk, decap(enc, skR), info, psk, psk_id)

\* HPKE::setup_auth_s
setup_auth_s(pkR, info, skS, skE) ==
  LET kem == auth_encap(pkR, skS, skE)
  IN  SenderInfo(kem.enc,
        key_schedule(Mode_auth, kem.shared_secret, info, default_psk, default_psk_id))

\* HPKE::setup_auth_r
setup_auth_r(enc, skR, info, pkS) ==
  key_schedule(Mode_auth, auth_decap(enc, pkS, skR), info, default_psk, default_psk_id)

\* HPKE::setup_auth_psk_s
setup_auth_psk_s(pkR, info, psk, psk_id, skS, skE) ==
  LET kem == auth_encap(pkR, skS, skE)
  IN  SenderInfo(kem.enc,
        key_schedule(Mode_auth_psk, kem.shared_secret, info, psk, psk_id))

\* HPKE::setup_auth_psk_r using the base-mode decapsulation.
setup_auth_psk_r_noauth(enc, skR, info, psk, psk_id, pkS) ==
  key_schedule(Mode_auth_psk, decap(enc, skR), info, psk, psk_id)

\* HPKE::setup_auth_psk_r
setup_auth_psk_r(enc, skR, info, psk, psk_id, pkS) ==
  key_schedule(Mode_auth_psk, auth_decap(enc, pkS, skR), info, psk, psk_id)

\* ------------------------------------------------- MLS: collaborators

\* SignaturePrivateKey::public_key
sig_public_key(priv) == PowMod(7, priv, 23)

\* SignaturePrivateKey::sign(suite, msg) : an ideal deterministic signature,
\* bound to the suite, the key and the whole message.
sig_sign(cs, priv, msg) == <<cs, sig_public_key(priv)>> \o msg

\* SignaturePublicKey::verify(suite, msg, sig)
sig_verify(cs, pub, msg, sig) == sig = <<cs, pub>> \o msg

\* CipherSuite::digest.hmac(key, msg) : an ideal MAC, bound to the suite, the
\* key and the whole message.
hmac(cs, key, msg) == <<cs>> \o VecEncode(1, key) \o msg

\* constant_time_eq
constant_time_eq(lhs, rhs) == lhs = rhs

\* tls::ostream << GroupContext
GroupContextEncode(gc) ==
  VecEncode(1, gc.group_id) \o I2OSP(gc.epoch, 8) \o VecEncode(1, gc.tree_hash)
    \o VecEncode(1, gc.confirmed_transcript_hash) \o VecEncode(2, gc.extensions)

\* tls::ostream << Sender
SenderEncode(sender) == <<sender.sender_type>> \o I2OSP(sender.sender, 4)

\* tls::ostream << std::optional<MAC>
OptMacEncode(tag) == IF tag = <<>> THEN <<0>> ELSE <<1>> \o VecEncode(1, tag[1])

\* ContentType::selector and ProposalType::selector
ContentType_application == 1
ContentType_proposal == 2
ContentType_commit == 3
ProposalType_add == 1
ProposalType_update == 2
ProposalType_remove == 3

\* tls::ostream << ApplicationData / Proposal / Commit : the content without
\* its type tag.
ContentBodyEncode(content) ==
  CASE content.type = ContentType_application -> VecEncode(4, content.data)
    [] content.type = ContentType_proposal ->
         <<content.proposal_type>> \o VecEncode(2, content.data)
    [] content.type = ContentType_commit -> VecEncode(4, content.data)

\* tls::variant<ContentType>::encode : the type tag, then the content.
VariantEncode(content) == <<content.type>> \o ContentBodyEncode(content)

\* ------------------------------------------------------ MLSPlaintext

\* ApplicationData() : the content of a default-constructed variant.
DefaultContent == [type |-> ContentType_application, proposal_type |-> 0, data |-> <<>>]

\* MLSPlaintext::MLSPlaintext() ; the epoch member has no initializer.
MLSPlaintext_default(epoch) ==
  [group_id |-> <<>>, epoch |-> epoch, sender |-> [sender_type |-> 0, sender |-> 0],
   authenticated_data |-> <<>>, content |-> DefaultContent, signature |-> <<>>,
   confirmation_tag |-> <<>>, membership_tag |-> <<>>, decrypted |-> FALSE]

\* MLSPlaintext::MLSPlaintext(group_id, epoch, sender, ApplicationData / Proposal
\* / Commit)
MLSPlaintext_content(group_id_in, epoch_in, sender_in, content_in) ==
  [group_id |-> group_id_in, epoch |-> epoch_in, sender |-> sender_in,
   authenticated_data |-> <<>>, content |-> content_in, signature |-> <<>>,
   confirmation_tag |-> <<>>, membership_tag |-> <<>>, decrypted |-> FALSE]

\* tls::vector<k>::decode : the bytes after a k-byte length, and what follows.
ReadVec(k, s) ==
  IF Len(s) < k THEN [ok |-> FALSE, val |-> <<>>, rest |-> <<>>]
  ELSE LET n == OS2IP(SubSeq(s, 1, k))
       IN  IF Len(s) < k + n THEN [ok |-> FALSE, val |-> <<>>, rest |-> <<>>]
           ELSE [ok |-> TRUE, val |-> SubSeq(s, k + 1, k + n),
                 rest |-> SubSeq(s, k + n + 1, Len(s))]

\* tls::istream >> ApplicationData / Proposal / Commit
ReadContentBody(type, s) ==
  IF type = ContentType_proposal
  THEN IF Len(s) < 1
          \/ s[1] \notin {ProposalType_add, ProposalType_update, ProposalType_remove}
       THEN [ok |-> FALSE, val |-> DefaultContent, rest |-> <<>>]
       ELSE LET v == ReadVec(2, Tail(s))
            IN  [ok |-> v.ok,
                 val |-> [type |-> type, proposal_type |-> s[1], data |-> v.val],
                 rest |-> v.rest]
  ELSE LET v == ReadVec(4, s)
       IN  [ok |-> v.ok, val |-> [type |-> type, proposal_type |-> 0, data |-> v.val],
            rest |-> v.rest]

\* tls::istream >> std::optional<MAC>
ReadOptMac(s) ==
  IF Len(s) < 1 \/ s[1] \notin {0, 1} THEN [ok |-> FALSE, val |-> <<>>, rest |-> <<>>]
  ELSE IF s[1] = 0 THEN [ok |-> TRUE, val |-> <<>>, rest |-> Tail(s)]
  ELSE LET v == ReadVec(1, Tail(s))
       IN  [ok |-> v.ok, val |-> IF v.ok THEN <<v.val>> ELSE <<>>, rest |-> v.rest]

\* MLSPlaintext::MLSPlaintext(group_id, epoch, sender, content_type,
\* authenticated_data, content) : the constructor for decrypted content.
MLSPlaintext_decrypted(group_id_in, epoch_in, sender_in, content_type_in, authenticated_data_in, content_in) ==
  IF content_type_in \notin
       {ContentType_application, ContentType_proposal, ContentType_commit}
  THEN [ok |-> FALSE, err |-> "Unknown content type", pt |-> <<>>]
  ELSE
    LET c == ReadContentBody(content_type_in, content_in)
        sig == ReadVec(2, c.rest)
        tag == ReadOptMac(sig.rest)
        padding == ReadVec(2, tag.rest)
    IN  IF ~(c.ok /\ sig.ok /\ tag.ok /\ padding.ok)
        THEN [ok |-> FALSE, err |-> "read error", pt |-> <<>>]
        ELSE [ok |-> TRUE, err |-> "",
              pt |-> << [group_id |-> group_id_in, epoch |-> epoch_in,
                         sender |-> sender_in,
                         authenticated_data |-> authenticated_data_in,
                         content |-> c.val, signature |-> sig.val,
                         confirmation_tag |-> tag.val, membership_tag |-> <<>>,
                         decrypted |-> TRUE] >>]

\* MLSPlaintext::marshal_content writing the signature behind a one-byte length.
marshal_content_short_signature(p, padding_size) ==
  ContentBodyEncode(p.content) \o VecEncode(1, p.signature)
    \o OptMacEncode(p.confirmation_tag)
    \o VecEncode(2, [i \in 1..padding_size |-> 0])

\* MLSPlaintext::marshal_content
marshal_content(p, padding_size) ==
  ContentBodyEncode(p.content) \o VecEncode(2, p.signature)
    \o OptMacEncode(p.confirmation_tag)
    \o VecEncode(2, [i \in 1..padding_size |-> 0])

\* MLSPlaintext::commit_content
commit_content(p) ==
  VecEncode(1, p.group_id) \o I2OSP(p.epoch, 8) \o SenderEncode(p.sender)
    \o VariantEncode(p.content) \o VecEncode(2, p.signature)

\* MLSPlaintext::commit_auth_data
commit_auth_data(p) == OptMacEncode(p.confirmation_tag)

\* MLSPlaintext::to_be_signed leaving out the authenticated data.
to_be_signed_no_aad(p, context) ==
  GroupContextEncode(context) \o VecEncode(1, p.group_id) \o I2OSP(p.epoch, 8)
    \o SenderEncode(p.sender) \o VariantEncode(p.content)

\* MLSPlaintext::to_be_signed
to_be_signed(p, context) ==
  GroupContextEncode(context) \o VecEncode(1, p.group_id) \o I2OSP(p.epoch, 8)
    \o SenderEncode(p.sender) \o VecEncode(4, p.authenticated_data)
    \o VariantEncode(p.content)

\* MLSPlaintext::sign
sign(p, cs, context, priv) ==
  [p EXCEPT !.signature = sig_sign(cs, priv, to_be_signed(p, context))]

\* MLSPlaintext::verify
verify(p, cs, context, pub) == sig_verify(cs, pub, to_be_signed(p, context), p.signature)

\* MLSPlaintext::membership_tag_input leaving out the confirmation tag.
membership_tag_input_no_confirmation(p, context) ==
  to_be_signed(p, context) \o VecEncode(2, p.signature)

\* MLSPlaintext::membership_tag_input
membership_tag_input(p, context) ==
  to_be_signed(p, context) \o (VecEncode(2, p.signature) \o OptMacEncode(p.confirmation_tag))

\* MLSPlaintext::set_membership_tag marking the plaintext as authenticated.
set_membership_tag_decrypted(p, cs, context, mac_key) ==
  [p EXCEPT !.membership_tag = << hmac(cs, mac_key, membership_tag_input(p, context)) >>,
            !.decrypted = TRUE]

\* MLSPlaintext::set_membership_tag
set_membership_tag(p, cs, context, mac_key) ==
  [p EXCEPT !.membership_tag = << hmac(cs, mac_key, membership_tag_input(p, context)) >>]

\* MLSPlaintext::verify_membership_tag
verify_membership_tag(p, cs, context, mac_key) ==
  IF p.decrypted THEN TRUE
  ELSE IF p.membership_tag = <<>> THEN FALSE
  ELSE constant_time_eq(hmac(cs, mac_key, membership_tag_input(p, context)),
                        p.membership_tag[1])

\* tls::istream >> Sender
ReadSender(s) ==
  IF Len(s) < 5 THEN [ok |-> FALSE, val |-> [sender_type |-> 0, sender |-> 0], rest |-> <<>>]
  ELSE [ok |-> TRUE, val |-> [sender_type |-> s[1], sender |-> OS2IP(SubSeq(s, 2, 5))],
        rest |-> SubSeq(s, 6, Len(s))]

\* tls::variant<ContentType>::decode : the type tag, then the content it selects.
ReadVariant(s) ==
  IF Len(s) < 1
     \/ s[1] \notin {ContentType_application, ContentType_proposal, ContentType_commit}
  THEN [ok |-> FALSE, val |-> DefaultContent, rest |-> <<>>]
  ELSE ReadContentBody(s[1], Tail(s))

\* tls::marshal(MLSPlaintext) : the serialized members in declared order; the
\* decrypted flag is not among them.
MLSPlaintext_marshal(p) ==
  VecEncode(1, p.group_id) \o I2OSP(p.epoch, 8) \o SenderEncode(p.sender)
    \o VecEncode(4, p.authenticated_data) \o VariantEncode(p.content)
    \o VecEncode(2, p.signature) \o OptMacEncode(p.confirmation_tag)
    \o OptMacEncode(p.membership_tag)

\* tls::get<MLSPlaintext>(data) : a default-constructed object filled in from
\* the stream, and the bytes the stream has left.
MLSPlaintext_unmarshal(data) ==
  LET gid == ReadVec(1, data)
      ep == SubSeq(gid.rest, 1, 8)
      snd == ReadSender(SubSeq(gid.rest, 9, Len(gid.rest)))
      aad == ReadVec(4, snd.rest)
      c == ReadVariant(aad.rest)
      sig == ReadVec(2, c.rest)
      conf == ReadOptMac(sig.rest)
      memb == ReadOptMac(conf.rest)
  IN  IF ~gid.ok \/ Len(gid.rest) < 8 \/ ~snd.ok \/ ~aad.ok \/ ~c.ok \/ ~sig.ok
         \/ ~conf.ok \/ ~memb.ok
      THEN [ok |-> FALSE, err |-> "read error", pt |-> <<>>, rest |-> <<>>]
      ELSE [ok |-> TRUE, err |-> "",
            pt |-> << [group_id |-> gid.val, epoch |-> OS2IP(ep), sender |-> snd.val,
                       authenticated_data |-> aad.val, content |-> c.val,
                       signature |-> sig.val, confirmation_tag |-> conf.val,
                       membership_tag |-> memb.val, decrypted |-> FALSE] >>,
            rest |-> memb.rest]

\* ------------------------------------------- key packages and the tree

\* tls::ostream << KeyPackage
KeyPackageEncode(kp) ==
  I2OSP(kp.cipher_suite, 2) \o VecEncode(2, <<kp.init_key>>)
    \o VecEncode(2, <<kp.credential_key>>)

\* KeyPackage::hash : the suite's digest of the serialized key package.
KeyPackageHash(kp) == Stretch(Mix(<<4, kp.cipher_suite>> \o KeyPackageEncode(kp), 7), Nh)

\* tls::istream >> KeyPackage
ReadKeyPackage(s) ==
  LET init == ReadVec(2, SubSeq(s, 3, Len(s)))
      cred == ReadVec(2, init.rest)
  IN  IF Len(s) < 2 \/ ~init.ok \/ ~cred.ok \/ Len(init.val) # 1 \/ Len(cred.val) # 1
      THEN [ok |-> FALSE, val |-> <<>>, rest |-> <<>>]
      ELSE [ok |-> TRUE,
            val |-> << [cipher_suite |-> OS2IP(SubSeq(s, 1, 2)), init_key |-> init.val[1],
                        credential_key |-> cred.val[1]] >>,
            rest |-> cred.rest]

\* One leaf of the tree: a blank, or a key package.
LeafEncode(leaf) == IF leaf = <<>> THEN <<0>> ELSE <<1>> \o KeyPackageEncode(leaf[1])

\* tls::ostream << TreeKEMPublicKey
TreeEncode(tree) == VecEncode(4, Concat([i \in 1..Len(tree.leaves) |-> LeafEncode(tree.leaves[i])]))

RECURSIVE ReadLeaves(_)
\* The leaves in the body of a serialized tree.
ReadLeaves(s) ==
  IF s = <<>> THEN [ok |-> TRUE, val |-> <<>>]
  ELSE IF s[1] = 0
       THEN LET more == ReadLeaves(Tail(s))
            IN  [ok |-> more.ok, val |-> IF more.ok THEN <<(<<>>)>> \o more.val ELSE <<>>]
  ELSE IF s[1] = 1
       THEN LET kp == ReadKeyPackage(Tail(s))
                more == IF kp.ok THEN ReadLeaves(kp.rest) ELSE [ok |-> FALSE, val |-> <<>>]
            IN  [ok |-> more.ok, val |-> IF more.ok THEN <<kp.val>> \o more.val ELSE <<>>]
  ELSE [ok |-> FALSE, val |-> <<>>]

\* tls::istream >> TreeKEMPublicKey, for the given suite.
ReadTree(cs, s) ==
  LET body == ReadVec(4, s)
      leaves == IF body.ok THEN ReadLeaves(body.val) ELSE [ok |-> FALSE, val |-> <<>>]
  IN  [ok |-> leaves.ok, val |-> [suite |-> cs, leaves |-> leaves.val], rest |-> body.rest]

\* TreeKEMPublicKey::key_package(index)
key_package(tree, index) ==
  IF index + 1 \in 1..Len(tree.leaves) THEN tree.leaves[index + 1] ELSE <<>>

\* ----------------------------------------------------------- GroupInfo

\* TreeKEMPublicKey::TreeKEMPublicKey(suite) : a tree with no leaves.
TreeKEMPublicKey(cs) == [suite |-> cs, leaves |-> <<>>]

\* GroupInfo::GroupInfo(suite)
GroupInfo_suite(cs) ==
  [suite |-> cs, group_id |-> <<>>, epoch |-> 0, tree |-> TreeKEMPublicKey(cs),
   confirmed_transcript_hash |-> <<>>, interim_transcript_hash |-> <<>>,
   extensions |-> <<>>, confirmation |-> <<>>, signer_index |-> 0, signature |-> <<>>]

\* GroupInfo::GroupInfo(group_id, epoch, tree, confirmed_transcript_hash,
\* interim_transcript_hash, extensions, confirmation)
GroupInfo(group_id_in, epoch_in, tree_in, confirmed_transcript_hash_in, interim_transcript_hash_in, extensions_in, confirmation_in) ==
  [suite |-> tree_in.suite, group_id |-> group_id_in, epoch |-> epoch_in,
   tree |-> tree_in, confirmed_transcript_hash |-> confirmed_transcript_hash_in,
   interim_transcript_hash |-> interim_transcript_hash_in,
   extensions |-> extensions_in, confirmation |-> confirmation_in,
   signer_index |-> 0, signature |-> <<>>]

\* GroupInfo::to_be_signed
GroupInfo_to_be_signed(g) ==
  VecEncode(1, g.group_id) \o I2OSP(g.epoch, 8) \o TreeEncode(g.tree)
    \o VecEncode(1, g.confirmed_transcript_hash)
    \o VecEncode(1, g.interim_transcript_hash)
    \o VecEncode(1, g.confirmation) \o I2OSP(g.signer_index, 4)

\* GroupInfo::sign computing the signature before it sets signer_index.
GroupInfo_sign_stale_index(g, index, priv) ==
  LET maybe_kp == key_package(g.tree, index)
  IN  IF maybe_kp = <<>>
      THEN [ok |-> FALSE, kind |-> "InvalidParameterError",
            err |-> "Cannot sign from a blank leaf", gi |-> g]
      ELSE IF maybe_kp[1].credential_key # sig_public_key(priv)
      THEN [ok |-> FALSE, kind |-> "InvalidParameterError",
            err |-> "Bad key for index", gi |-> g]
      ELSE [ok |-> TRUE, kind |-> "", err |-> "",
            gi |-> [g EXCEPT !.signer_index = index,
                             !.signature =
                               sig_sign(g.suite, priv, GroupInfo_to_be_signed(g))]]

\* GroupInfo::sign
GroupInfo_sign(g, index, priv) ==
  LET maybe_kp == key_package(g.tree, index)
  IN  IF maybe_kp = <<>>
      THEN [ok |-> FALSE, kind |-> "InvalidParameterError",
            err |-> "Cannot sign from a blank leaf", gi |-> g]
      ELSE IF maybe_kp[1].credential_key # sig_public_key(priv)
      THEN [ok |-> FALSE, kind |-> "InvalidParameterError",
            err |-> "Bad key for index", gi |-> g]
      ELSE LET g1 == [g EXCEPT !.signer_index = index]
           IN  [ok |-> TRUE, kind |-> "", err |-> "",
                gi |-> [g1 EXCEPT !.signature =
                          sig_sign(g.suite, priv, GroupInfo_to_be_signed(g1))]]

\* GroupInfo::verify
GroupInfo_verify(g) ==
  LET maybe_kp == key_package(g.tree, g.signer_index)
  IN  IF maybe_kp = <<>>
      THEN [ok |-> FALSE, kind |-> "InvalidParameterError",
            err |-> "Cannot sign from a blank leaf", val |-> FALSE]
      ELSE [ok |-> TRUE, kind |-> "", err |-> "",
            val |-> sig_verify(g.suite, maybe_kp[1].credential_key,
                               GroupInfo_to_be_signed(g), g.signature)]

\* tls::marshal(GroupInfo) : every member but the suite, in declared order.
GroupInfo_marshal(g) ==
  VecEncode(1, g.group_id) \o I2OSP(g.epoch, 8) \o TreeEncode(g.tree)
    \o VecEncode(1, g.confirmed_transcript_hash)
    \o VecEncode(1, g.interim_transcript_hash)
    \o VecEncode(2, g.extensions)
    \o VecEncode(1, g.confirmation) \o I2OSP(g.signer_index, 4)
    \o VecEncode(2, g.signature)

\* tls::get<GroupInfo>(data, suite)
GroupInfo_unmarshal(data, cs) ==
  LET gid == ReadVec(1, data)
      ep == SubSeq(gid.rest, 1, 8)
      tr == ReadTree(cs, SubSeq(gid.rest, 9, Len(gid.rest)))
      cth == ReadVec(1, tr.rest)
      ith == ReadVec(1, cth.rest)
      ext == ReadVec(2, ith.rest)
      conf == ReadVec(1, ext.rest)
      idx == SubSeq(conf.rest, 1, 4)
      sig == ReadVec(2, SubSeq(conf.rest, 5, Len(conf.rest)))
  IN  IF ~gid.ok \/ Len(gid.rest) < 8 \/ ~tr.ok \/ ~cth.ok \/ ~ith.ok \/ ~ext.ok
         \/ ~conf.ok \/ Len(conf.rest) < 4 \/ ~sig.ok
      THEN [ok |-> FALSE, err |-> "read error", gi |-> <<>>]
      ELSE [ok |-> TRUE, err |-> "",
            gi |-> << [suite |-> cs, group_id |-> gid.val, epoch |-> OS2IP(ep),
                       tree |-> tr.val, confirmed_transcript_hash |-> cth.val,
                       interim_transcript_hash |-> ith.val, extensions |-> ext.val,
                       confirmation |-> conf.val, signer_index |-> OS2IP(idx),
                       signature |-> sig.val] >>]

\* ------------------------------------------------------------- Welcome

\* ProtocolVersion::mls10
ProtocolVersion_mls10 == 0

\* CipherSuite::expand_with_label(secret, label, context, size)
expand_with_label(secret, label, context, size) ==
  expand(secret,
         I2OSP(size, 2) \o VecEncode(1, <<109, 108, 115, 49, 48, 32>> \o label)
           \o VecEncode(4, context),
         size)

\* Welcome::group_info_key_nonce
group_info_key_nonce(epoch_secret) ==
  LET secret == expand_with_label(epoch_secret,
                  <<103, 114, 111, 117, 112, 32, 105, 110, 102, 111>>, <<>>, Nh)
  IN  [key |-> expand_with_label(secret, <<107, 101, 121>>, <<>>, Nk),
       nonce |-> expand_with_label(secret, <<110, 111, 110, 99, 101>>, <<>>, Nn)]

\* Welcome::Welcome()
Welcome_default ==
  [version |-> ProtocolVersion_mls10, cipher_suite |-> 0, secrets |-> <<>>,
   encrypted_group_info |-> <<>>, epoch_secret |-> <<>>]

\* Welcome::Welcome(suite, epoch_secret, group_info)
Welcome(cs, epoch_secret, group_info) ==
  LET kn == group_info_key_nonce(epoch_secret)
      group_info_data == GroupInfo_marshal(group_info)
  IN  [version |-> ProtocolVersion_mls10, cipher_suite |-> cs, secrets |-> <<>>,
       encrypted_group_info |-> aead_seal(kn.key, kn.nonce, <<>>, group_info_data),
       epoch_secret |-> epoch_secret]

\* Welcome::find : the index of the first entry for the key package, from 0.
Welcome_find(w, kp) ==
  LET hash == KeyPackageHash(kp)
      hits == {i \in 1..Len(w.secrets) : w.secrets[i].key_package_hash = hash}
  IN  IF hits = {} THEN <<>>
      ELSE << (CHOOSE i \in hits : \A j \in hits : i <= j) - 1 >>

\* tls::marshal(GroupSecrets)
GroupSecretsEncode(gs) ==
  VecEncode(1, gs.epoch_secret)
    \o (IF gs.path_secret = <<>> THEN <<0>> ELSE <<1>> \o VecEncode(1, gs.path_secret[1]))

\* HPKEPublicKey::encrypt(suite, aad, pt) : a base-mode setup with empty info,
\* then one seal; skE is the ephemeral key the KEM draws.
HPKEPublicKey_encrypt(pkR, aad, plaintext, skE) ==
  LET s == setup_base_s(pkR, <<>>, skE)
  IN  [kem_output |-> s.enc, ciphertext |-> seal(s.ctx[1], aad, plaintext).ct[1]]

\* Welcome::encrypt leaving the list alone when find() has an entry for kp.
Welcome_encrypt_once(w, kp, path_secret, skE) ==
  IF Welcome_find(w, kp) # <<>> THEN w
  ELSE [w EXCEPT !.secrets =
          Append(@, [key_package_hash |-> KeyPackageHash(kp),
                     encrypted_group_secrets |->
                       HPKEPublicKey_encrypt(kp.init_key, <<>>,
                         GroupSecretsEncode([epoch_secret |-> w.epoch_secret,
                                             path_secret |-> path_secret]), skE)])]

\* Welcome::encrypt
Welcome_encrypt(w, kp, path_secret, skE) ==
  LET gs == [epoch_secret |-> w.epoch_secret, path_secret |-> path_secret]
      gs_data == GroupSecretsEncode(gs)
      enc_gs == HPKEPublicKey_encrypt(kp.init_key, <<>>, gs_data, skE)
  IN  [w EXCEPT !.secrets =
         Append(@, [key_package_hash |-> KeyPackageHash(kp),
                    encrypted_group_secrets |-> enc_gs])]

\* Welcome::decrypt opening with a non-empty aad.
Welcome_decrypt_aad(w, epoch_secret) ==
  LET kn == group_info_key_nonce(epoch_secret)
      group_info_data == aead_open(kn.key, kn.nonce, <<0>>, w.encrypted_group_info)
  IN  IF group_info_data = <<>>
      THEN [ok |-> FALSE, err |-> "Welcome decryption failed", gi |-> <<>>]
      ELSE GroupInfo_unmarshal(group_info_data[1], w.cipher_suite)

\* Welcome::decrypt
Welcome_decrypt(w, epoch_secret) ==
  LET kn == group_info_key_nonce(epoch_secret)
      group_info_data == aead_open(kn.key, kn.nonce, <<>>, w.encrypted_group_info)
  IN  IF group_info_data = <<>>
      THEN [ok |-> FALSE, err |-> "Welcome decryption failed", gi |-> <<>>]
      ELSE GroupInfo_unmarshal(group_info_data[1], w.cipher_suite)

\* ------------------------------------------------------------ the state

VARIABLES
  sctx,      \* the SenderContext, once a setup_*_s has returned one
  senc,      \* the enc output of that setup
  sargs,     \* the arguments of that setup
  rctx,      \* the ReceiverContext, once a setup_*_r has returned one
  rargs,     \* the arguments of that setup
  sealed,    \* the seal calls that returned a ciphertext, in order
  opened,    \* the open calls that returned (a plaintext or absence), in order
  result,    \* the outcome of the last HPKE call
  ks_in,     \* the arguments of a direct key_schedule call
  ks_out,    \* what verify_psk_inputs and key_schedule returned for them
  ptx,       \* an MLSPlaintext
  pt_signed, \* the last sign call on it: its arguments and the object it left
  pt_ops,    \* the number of operations applied to it
  pt_ctor,   \* the constructor that built it
  wire,      \* the bytes an encoder produced from it, as they reach a decoder
  decoded,   \* what the decoder made of those bytes
  gi,        \* a GroupInfo
  gi_signed, \* the object the last successful sign call on it left
  gi_result, \* the last sign call on it: its arguments, its place among the
             \* operations and its outcome
  gi_ops,    \* the number of operations applied to it
  welcome,   \* a Welcome
  w_info,    \* the GroupInfo and epoch secret its constructor was given
  w_calls,   \* the key packages passed to encrypt, in call order
  w_out      \* the decrypt calls made on it: each epoch secret with its outcome

hpkeVars == <<sctx, senc, sargs, rctx, rargs, sealed, opened, result>>
ksVars == <<ks_in, ks_out>>
ptVars == <<ptx, pt_signed, pt_ops, pt_ctor>>
codecVars == <<wire, decoded>>
giVars == <<gi, gi_signed, gi_result, gi_ops>>
wVars == <<welcome, w_info, w_calls, w_out>>

vars == <<hpkeVars, ksVars, ptVars, giVars, wVars, codecVars>>

\* The variables outside each part of the model.
nonHpkeVars == <<ksVars, ptVars, giVars, wVars, codecVars>>
nonKsVars == <<hpkeVars, ptVars, giVars, wVars, codecVars>>
nonPtVars == <<hpkeVars, ksVars, giVars, wVars, codecVars>>
nonGiVars == <<hpkeVars, ksVars, ptVars, wVars, codecVars>>
nonWVars == <<hpkeVars, ksVars, ptVars, giVars, codecVars>>
nonCodecVars == <<hpkeVars, ksVars, pt_signed, pt_ops, pt_ctor, giVars, wVars>>

\* --------------------------------------------------------- input domains

RecipientKeys == {3, 7}
SenderKeys == {4, 6}
EphemeralKeys == {2, 5}
Infos == {<<>>, <<97, 98, 99>>}
Psks == {<<>>, <<1, 2>>}
PskIds == {<<>>, <<9>>}
Aads == {<<97, 97, 100>>, <<>>}
Plaintexts == {<<104, 105>>, <<>>}
Garbage == <<0, 255>>

\* What the sender fixes: the recipient, the info string and its own key.
TheRecipient == CHOOSE k \in RecipientKeys : \A j \in RecipientKeys : k <= j
TheInfo == <<97, 98, 99>>
TheSender == CHOOSE k \in SenderKeys : \A j \in SenderKeys : k <= j
TheAad == <<97, 97, 100>>

NoArgs == [mode |-> 0, key |-> 0, info |-> <<>>, psk |-> <<>>, psk_id |-> <<>>, auth |-> 0]

Done(op, r) == [op |-> op, ok |-> r.ok, err |-> r.err]

\* ------------------------------------------------------------- actions

\* The values of the variables of a part of the model that is not in use.
IdleKsIn ==
  [mode |-> 0, shared_secret |-> <<>>, info |-> <<>>, psk |-> <<>>, psk_id |-> <<>>]
IdleKsOut == [called |-> FALSE, accepted |-> FALSE, ks |-> Throw("")]
IdleResult == [op |-> "none", ok |-> TRUE, err |-> ""]
IdlePt == MLSPlaintext_default(0)
IdleGi == GroupInfo_suite(0)
IdleWelcome == Welcome_default

HpkeInit ==
  /\ sctx = <<>>
  /\ senc = <<>>
  /\ sargs = NoArgs
  /\ rctx = <<>>
  /\ rargs = NoArgs
  /\ sealed = <<>>
  /\ opened = <<>>
  /\ result = IdleResult
  /\ ks_in = IdleKsIn /\ ks_out = IdleKsOut
  /\ ptx = IdlePt /\ pt_signed = <<>> /\ pt_ops = 0 /\ pt_ctor = "default"
  /\ wire = <<>> /\ decoded = <<>>
  /\ gi = IdleGi /\ gi_signed = <<>> /\ gi_result = IdleResult /\ gi_ops = 0
  /\ welcome = IdleWelcome /\ w_info = <<>> /\ w_calls = <<>> /\ w_out = {}

\* The sender's side of a setup_*_s call with outcome r.
SenderSetup(r, args) ==
  /\ sctx = <<>>
  /\ sctx' = r.ctx
  /\ senc' = IF r.ok THEN r.enc ELSE senc
  /\ sargs' = IF r.ok THEN args ELSE sargs
  /\ result' = Done("setup_s", r)
  /\ UNCHANGED <<rctx, rargs, sealed, opened>>
  /\ UNCHANGED nonHpkeVars

\* The receiver's side of a setup_*_r call with outcome r: the receiver runs
\* the setup of the mode the sender used.
ReceiverSetup(r, args) ==
  /\ sctx # <<>>
  /\ args.mode = sargs.mode
  /\ rctx = <<>>
  /\ rctx' = r.ctx
  /\ rargs' = IF r.ok THEN args ELSE rargs
  /\ result' = Done("setup_r", r)
  /\ UNCHANGED <<sctx, senc, sargs, sealed, opened>>
  /\ UNCHANGED nonHpkeVars

SetupBaseS ==
  \E skE \in EphemeralKeys :
    SenderSetup(setup_base_s(dh_public(TheRecipient), TheInfo, skE),
      [mode |-> Mode_base, key |-> dh_public(TheRecipient), info |-> TheInfo,
       psk |-> <<>>, psk_id |-> <<>>, auth |-> 0])

SetupPskS ==
  \E skE \in EphemeralKeys, psk \in Psks, psk_id \in PskIds :
    SenderSetup(setup_psk_s(dh_public(TheRecipient), TheInfo, psk, psk_id, skE),
      [mode |-> Mode_psk, key |-> dh_public(TheRecipient), info |-> TheInfo,
       psk |-> psk, psk_id |-> psk_id, auth |-> 0])

SetupAuthS ==
  \E skE \in EphemeralKeys :
    SenderSetup(setup_auth_s(dh_public(TheRecipient), TheInfo, TheSender, skE),
      [mode |-> Mode_auth, key |-> dh_public(TheRecipient), info |-> TheInfo,
       psk |-> <<>>, psk_id |-> <<>>, auth |-> TheSender])

SetupAuthPskS ==
  \E skE \in EphemeralKeys, psk \in Psks, psk_id \in PskIds :
    SenderSetup(
      setup_auth_psk_s(dh_public(TheRecipient), TheInfo, psk, psk_id, TheSender, skE),
      [mode |-> Mode_auth_psk, key |-> dh_public(TheRecipient), info |-> TheInfo,
       psk |-> psk, psk_id |-> psk_id, auth |-> TheSender])

SetupBaseR ==
  \E skR \in RecipientKeys, info \in Infos :
    ReceiverSetup(setup_base_r(senc, skR, info),
      [mode |-> Mode_base, key |-> skR, info |-> info,
       psk |-> <<>>, psk_id |-> <<>>, auth |-> 0])

SetupPskR ==
  \E skR \in RecipientKeys, info \in Infos, psk \in Psks, psk_id \in PskIds :
    ReceiverSetup(setup_psk_r(senc, skR, info, psk, psk_id),
      [mode |-> Mode_psk, key |-> skR, info |-> info,
       psk |-> psk, psk_id |-> psk_id, auth |-> 0])

SetupAuthR ==
  \E skR \in RecipientKeys, info \in Infos, skS \in SenderKeys :
    ReceiverSetup(setup_auth_r(senc, skR, info, dh_public(skS)),
      [mode |-> Mode_auth, key |-> skR, info |-> info,
       psk |-> <<>>, psk_id |-> <<>>, auth |-> dh_public(skS)])

SetupAuthPskR ==
  \E skR \in RecipientKeys, info \in Infos, psk \in Psks, psk_id \in PskIds,
     skS \in SenderKeys :
    ReceiverSetup(setup_auth_psk_r(senc, skR, info, psk, psk_id, dh_public(skS)),
      [mode |-> Mode_auth_psk, key |-> skR, info |-> info,
       psk |-> psk, psk_id |-> psk_id, auth |-> dh_public(skS)])

\* SenderContext::seal(aad, pt) on the sender context.
Seal(aad, pt) ==
  /\ sctx # <<>>
  /\ \E r \in {seal(sctx[1], aad, pt)} :
         /\ sctx' = <<r.ctx>>
         /\ sealed' = IF r.ok
                      THEN Append(sealed, [nonce |-> r.nonce, aad |-> aad, pt |-> pt,
                                           ct |-> r.ct[1]])
                      ELSE sealed
         /\ result' = Done("seal", r)
  /\ UNCHANGED <<senc, sargs, rctx, rargs, opened>>
  /\ UNCHANGED nonHpkeVars

\* ReceiverContext::open(aad, ct) on the receiver context.
Open(aad, ct) ==
  /\ rctx # <<>>
  /\ \E r \in {open(rctx[1], aad, ct)} :
         /\ rctx' = <<r.ctx>>
         /\ opened' = IF r.ok
                      THEN Append(opened, [nonce |-> r.nonce, aad |-> aad, ct |-> ct,
                                           pt |-> r.pt])
                      ELSE opened
         /\ result' = Done("open", r)
  /\ UNCHANGED <<sctx, senc, sargs, rargs, sealed>>
  /\ UNCHANGED nonHpkeVars

\* The ciphertext the sender sealed at the receiver's position, if any.
InOrder == IF Len(opened) < Len(sealed) THEN {sealed[Len(opened) + 1].ct} ELSE {}

\* Earlier and later ciphertexts of the sender.
OutOfOrder == {sealed[i].ct : i \in 1..Len(sealed)} \ InOrder

SealMsg == \E pt \in Plaintexts : Len(sealed) < MaxMsgs /\ Seal(TheAad, pt)

OpenMsg ==
  /\ Len(opened) < MaxMsgs
  /\ \/ \E ct \in InOrder, aad \in Aads : Open(aad, ct)
     \/ \E ct \in OutOfOrder \cup {Garbage} : Open(TheAad, ct)

\* setup_*_s by mode, for a sender with a pre-shared key in the PSK modes.
SetupS(mode, skE) ==
  CASE mode = Mode_base -> setup_base_s(dh_public(TheRecipient), TheInfo, skE)
    [] mode = Mode_psk ->
         setup_psk_s(dh_public(TheRecipient), TheInfo, <<1, 2>>, <<9>>, skE)
    [] mode = Mode_auth ->
         setup_auth_s(dh_public(TheRecipient), TheInfo, TheSender, skE)
    [] mode = Mode_auth_psk ->
         setup_auth_psk_s(dh_public(TheRecipient), TheInfo, <<1, 2>>, <<9>>,
                          TheSender, skE)

\* setup_*_r by mode, with the inputs that match SetupS.
SetupR(mode, enc) ==
  CASE mode = Mode_base -> setup_base_r(enc, TheRecipient, TheInfo)
    [] mode = Mode_psk -> setup_psk_r(enc, TheRecipient, TheInfo, <<1, 2>>, <<9>>)
    [] mode = Mode_auth ->
         setup_auth_r(enc, TheRecipient, TheInfo, dh_public(TheSender))
    [] mode = Mode_auth_psk ->
         setup_auth_psk_r(enc, TheRecipient, TheInfo, <<1, 2>>, <<9>>,
                          dh_public(TheSender))

\* A sender context and the matching receiver context, right after their setup.
CtxInit ==
  \E mode \in Modes, skE \in EphemeralKeys :
    \E s \in {SetupS(mode, skE)} :
      \E r \in {SetupR(mode, s.enc)} :
        /\ sctx = s.ctx
        /\ senc = s.enc
        /\ sargs = [mode |-> mode, key |-> dh_public(TheRecipient), info |-> TheInfo,
                    psk |-> IF mode \in {Mode_psk, Mode_auth_psk} THEN <<1, 2>> ELSE <<>>,
                    psk_id |-> IF mode \in {Mode_psk, Mode_auth_psk} THEN <<9>> ELSE <<>>,
                    auth |-> IF mode \in {Mode_auth, Mode_auth_psk} THEN TheSender ELSE 0]
        /\ rctx = r.ctx
        /\ rargs = [mode |-> mode, key |-> TheRecipient, info |-> TheInfo,
                    psk |-> IF mode \in {Mode_psk, Mode_auth_psk} THEN <<1, 2>> ELSE <<>>,
                    psk_id |-> IF mode \in {Mode_psk, Mode_auth_psk} THEN <<9>> ELSE <<>>,
                    auth |-> IF mode \in {Mode_auth, Mode_auth_psk}
                             THEN dh_public(TheSender) ELSE 0]
        /\ sealed = <<>>
        /\ opened = <<>>
        /\ result = Done("setup_r", r)
        /\ ks_in = IdleKsIn /\ ks_out = IdleKsOut
        /\ ptx = IdlePt /\ pt_signed = <<>> /\ pt_ops = 0 /\ pt_ctor = "default"
        /\ wire = <<>> /\ decoded = <<>>
        /\ gi = IdleGi /\ gi_signed = <<>> /\ gi_result = IdleResult /\ gi_ops = 0
        /\ welcome = IdleWelcome /\ w_info = <<>> /\ w_calls = <<>> /\ w_out = {}
\* A seal call at any counter value.
SealAny == Seal(TheAad, <<104, 105>>)

\* An open call at any counter value, on the sender's ciphertext for that
\* position or on bytes no seal produced.
OpenAny == \E ct \in InOrder \cup {Garbage} : Open(TheAad, ct)

NextCtx == SealAny \/ OpenAny

\* A pair of contexts used until their counters are exhausted.
SpecCtx == CtxInit /\ [][NextCtx]_vars

NextHpke ==
  \/ SetupBaseS \/ SetupPskS \/ SetupAuthS \/ SetupAuthPskS
  \/ SetupBaseR \/ SetupPskR \/ SetupAuthR \/ SetupAuthPskR
  \/ SealMsg
  \/ OpenMsg

\* HPKE: any setup on each side, then up to MaxMsgs messages.
SpecHpke == HpkeInit /\ [][NextHpke]_vars

\* ------------------------------------------------ the PSK input check

\* Pre-shared keys and identifiers offered to key_schedule: empty ones and others.
KsPsks == {<<>>, <<1, 2>>, <<3>>}
KsPskIds == {<<>>, <<9>>, <<8, 8>>}

\* The arguments of a key_schedule call, before it is made.
KsInit ==
  /\ \E mode \in Modes, psk \in KsPsks, psk_id \in KsPskIds, info \in Infos :
       ks_in = [mode |-> mode, shared_secret |-> <<42>>, info |-> info, psk |-> psk,
                psk_id |-> psk_id]
  /\ ks_out = IdleKsOut
  /\ sctx = <<>> /\ senc = <<>> /\ sargs = NoArgs
  /\ rctx = <<>> /\ rargs = NoArgs
  /\ sealed = <<>> /\ opened = <<>> /\ result = IdleResult
  /\ ptx = IdlePt /\ pt_signed = <<>> /\ pt_ops = 0 /\ pt_ctor = "default"
  /\ wire = <<>> /\ decoded = <<>>
  /\ gi = IdleGi /\ gi_signed = <<>> /\ gi_result = IdleResult /\ gi_ops = 0
  /\ welcome = IdleWelcome /\ w_info = <<>> /\ w_calls = <<>> /\ w_out = {}

\* key_schedule(mode, shared_secret, info, psk, psk_id) and the check it runs first.
KeySchedule ==
  /\ ~ks_out.called
  /\ \E r \in {key_schedule(ks_in.mode, ks_in.shared_secret, ks_in.info, ks_in.psk,
                            ks_in.psk_id)} :
       ks_out' = [called |-> TRUE,
                  accepted |-> verify_psk_inputs(ks_in.mode, ks_in.psk, ks_in.psk_id),
                  ks |-> r]
  /\ UNCHANGED <<ks_in, nonKsVars>>

NextKs == KeySchedule

\* key_schedule on every combination of mode, psk and psk_id.
SpecKs == KsInit /\ [][NextKs]_vars

\* -------------------------------------------- the MLSPlaintext machine

TheSuite == CHOOSE cs \in {1} : TRUE
GroupIds == {<<1>>, <<1, 0>>}
Epochs == {0, 1}
Senders == {[sender_type |-> 1, sender |-> 0], [sender_type |-> 1, sender |-> 256]}
AuthData == {<<>>, <<0>>}
SigKeys == {3, 5}
MacKeys == {<<11>>, <<12>>}
MacValues == {<<77>>}
GroupContexts ==
  {[group_id |-> <<1>>, epoch |-> e, tree_hash |-> <<5>>,
    confirmed_transcript_hash |-> <<6>>, extensions |-> <<>>] : e \in Epochs}
TheContext == CHOOSE gc \in GroupContexts : gc.epoch = 0
Contents ==
  {[type |-> ContentType_application, proposal_type |-> 0, data |-> <<120>>],
   [type |-> ContentType_application, proposal_type |-> 0, data |-> <<>>],
   [type |-> ContentType_proposal, proposal_type |-> ProposalType_add, data |-> <<120>>],
   [type |-> ContentType_proposal, proposal_type |-> ProposalType_remove,
    data |-> <<120>>],
   [type |-> ContentType_commit, proposal_type |-> 0, data |-> <<120>>]}

\* The contents the constructors are given.
InitContents == {c \in Contents : c.data # <<>> /\ c.proposal_type # ProposalType_remove}

\* The plaintexts a sender frames: constructed from a content, and signed.
Framed ==
  {sign(MLSPlaintext_content(<<1>>, 0, [sender_type |-> 1, sender |-> 0], c),
        TheSuite, TheContext, 3) : c \in InitContents}

\* An MLSPlaintext as one of its constructors leaves it.
PtInit ==
  /\ \/ \E e \in Epochs : ptx = MLSPlaintext_default(e) /\ pt_ctor = "default"
     \/ \E c \in InitContents :
          /\ ptx = MLSPlaintext_content(<<1>>, 0, [sender_type |-> 1, sender |-> 0], c)
          /\ pt_ctor = "content"
     \/ \E f \in Framed :
          \E r \in {MLSPlaintext_decrypted(f.group_id, f.epoch, f.sender, f.content.type,
                                           f.authenticated_data, marshal_content(f, 2))} :
            r.ok /\ ptx = r.pt[1] /\ pt_ctor = "decrypted"
  /\ wire = <<>> /\ decoded = <<>>
  /\ pt_signed = <<>>
  /\ pt_ops = 0
  /\ sctx = <<>> /\ senc = <<>> /\ sargs = NoArgs
  /\ rctx = <<>> /\ rargs = NoArgs
  /\ sealed = <<>> /\ opened = <<>> /\ result = IdleResult
  /\ ks_in = IdleKsIn /\ ks_out = IdleKsOut
  /\ gi = IdleGi /\ gi_signed = <<>> /\ gi_result = IdleResult /\ gi_ops = 0
  /\ welcome = IdleWelcome /\ w_info = <<>> /\ w_calls = <<>> /\ w_out = {}

\* An operation on the plaintext that is not a sign call.
PtStep(p) ==
  /\ pt_ops < MaxOps
  /\ ptx' = p
  /\ pt_ops' = pt_ops + 1
  /\ UNCHANGED <<pt_signed, pt_ctor>>
  /\ UNCHANGED nonPtVars

\* MLSPlaintext::sign(suite, context, priv)
Sign ==
  \E priv \in SigKeys :
    /\ pt_ops < MaxOps
    /\ ptx' = sign(ptx, TheSuite, TheContext, priv)
    /\ pt_signed' = << [priv |-> priv, context |-> TheContext, p |-> ptx'] >>
    /\ pt_ops' = pt_ops + 1
    /\ UNCHANGED pt_ctor
    /\ UNCHANGED nonPtVars

\* MLSPlaintext::set_membership_tag(suite, context, mac_key)
SetMembershipTag ==
  \E k \in MacKeys : PtStep(set_membership_tag(ptx, TheSuite, TheContext, k))

\* Assignment to the confirmation_tag member.
SetConfirmationTag ==
  \E m \in MacValues : ptx.confirmation_tag # <<m>> /\ PtStep([ptx EXCEPT !.confirmation_tag = <<m>>])

\* Assignments to the other public members.
SetGroupId == \E g \in GroupIds \ {ptx.group_id} : PtStep([ptx EXCEPT !.group_id = g])
SetEpoch == \E e \in Epochs \ {ptx.epoch} : PtStep([ptx EXCEPT !.epoch = e])
SetSender == \E x \in Senders \ {ptx.sender} : PtStep([ptx EXCEPT !.sender = x])
SetAuthenticatedData ==
  \E d \in AuthData \ {ptx.authenticated_data} : PtStep([ptx EXCEPT !.authenticated_data = d])
SetContent == \E c \in Contents \ {ptx.content} : PtStep([ptx EXCEPT !.content = c])

\* A bit of the signature is flipped.
SetSignature ==
  /\ ptx.signature # <<>>
  /\ PtStep([ptx EXCEPT !.signature[1] = XorBits(@, 1, 8)])

NextPt ==
  \/ Sign \/ SetMembershipTag \/ SetConfirmationTag
  \/ SetGroupId \/ SetEpoch \/ SetSender \/ SetAuthenticatedData \/ SetContent
  \/ SetSignature

\* An MLSPlaintext under up to MaxOps operations.
SpecPt == PtInit /\ [][NextPt]_vars

\* ---------------------------------------------- the GroupInfo machine

\* The members' key packages: an init key and a credential key each.
KeyPackageA ==
  [cipher_suite |-> TheSuite, init_key |-> dh_public(3), credential_key |-> sig_public_key(3)]
KeyPackageB ==
  [cipher_suite |-> TheSuite, init_key |-> dh_public(7), credential_key |-> sig_public_key(5)]
KeyPackages == {KeyPackageA, KeyPackageB}

\* Two-leaf trees: the second leaf blank, or holding the other member.
TreeOne == [suite |-> TheSuite, leaves |-> << <<KeyPackageA>>, <<>> >>]
TreeTwo == [suite |-> TheSuite, leaves |-> << <<KeyPackageA>>, <<KeyPackageB>> >>]
Trees == {TreeOne, TreeTwo}
LeafIndices == {0, 1}
Hashes == {<<11>>, <<12, 13>>}
ExtensionLists == {<<>>, <<0, 1, 0, 1, 9>>}

\* A GroupInfo as its constructor leaves it.
GiInit ==
  /\ \E t \in Trees : gi = GroupInfo(<<1>>, 0, t, <<11>>, <<11>>, <<>>, <<11>>)
  /\ gi_signed = <<>>
  /\ gi_result = IdleResult
  /\ gi_ops = 0
  /\ sctx = <<>> /\ senc = <<>> /\ sargs = NoArgs
  /\ rctx = <<>> /\ rargs = NoArgs
  /\ sealed = <<>> /\ opened = <<>> /\ result = IdleResult
  /\ ks_in = IdleKsIn /\ ks_out = IdleKsOut
  /\ ptx = IdlePt /\ pt_signed = <<>> /\ pt_ops = 0 /\ pt_ctor = "default"
  /\ wire = <<>> /\ decoded = <<>>
  /\ welcome = IdleWelcome /\ w_info = <<>> /\ w_calls = <<>> /\ w_out = {}

\* GroupInfo::sign(index, priv)
GiSign ==
  \E index \in LeafIndices, priv \in SigKeys :
    \E r \in {GroupInfo_sign(gi, index, priv)} :
      /\ gi_ops < MaxOps
      /\ gi' = r.gi
      /\ gi_signed' = IF r.ok THEN <<r.gi>> ELSE gi_signed
      /\ gi_result' = [op |-> "sign", ok |-> r.ok, err |-> r.err, kind |-> r.kind,
                       index |-> index, priv |-> priv, at |-> gi_ops + 1]
      /\ gi_ops' = gi_ops + 1
      /\ UNCHANGED nonGiVars

\* An assignment to one public member of the GroupInfo.
GiStep(g) ==
  /\ gi_ops < MaxOps
  /\ gi' = g
  /\ gi_ops' = gi_ops + 1
  /\ UNCHANGED <<gi_signed, gi_result>>
  /\ UNCHANGED nonGiVars

GiSetGroupId == \E v \in GroupIds : GiStep([gi EXCEPT !.group_id = v])
GiSetEpoch == \E v \in Epochs : GiStep([gi EXCEPT !.epoch = v])
GiSetTree == \E v \in Trees : GiStep([gi EXCEPT !.tree = v])
GiSetConfirmedTranscriptHash ==
  \E v \in Hashes : GiStep([gi EXCEPT !.confirmed_transcript_hash = v])
GiSetInterimTranscriptHash ==
  \E v \in Hashes : GiStep([gi EXCEPT !.interim_transcript_hash = v])
GiSetExtensions == \E v \in ExtensionLists : GiStep([gi EXCEPT !.extensions = v])
GiSetConfirmation == \E v \in Hashes : GiStep([gi EXCEPT !.confirmation = v])
GiSetSignerIndex == \E v \in LeafIndices : GiStep([gi EXCEPT !.signer_index = v])

NextGi ==
  \/ GiSign
  \/ GiSetGroupId
  \/ GiSetEpoch
  \/ GiSetTree
  \/ GiSetConfirmedTranscriptHash
  \/ GiSetInterimTranscriptHash
  \/ GiSetExtensions
  \/ GiSetConfirmation
  \/ GiSetSignerIndex

SpecGi == GiInit /\ [][NextGi]_vars

\* ------------------------------------------------ the Welcome machine

EpochSecrets == {<<21>>, <<22, 23>>}
TheEphemeral == CHOOSE k \in EphemeralKeys : \A j \in EphemeralKeys : k <= j
PathSecrets == {<<>>, << <<31>> >>}

\* The signed GroupInfo objects a Welcome is built around.
WelcomeGroupInfos ==
  {GroupInfo_sign(GroupInfo(<<1>>, 1, t, <<11>>, <<12, 13>>, e, <<11>>), 0, 3).gi :
     t \in Trees, e \in ExtensionLists}

\* A Welcome as Welcome(suite, epoch_secret, group_info) leaves it.
WInit ==
  /\ \E es \in EpochSecrets, g \in WelcomeGroupInfos :
       /\ welcome = Welcome(TheSuite, es, g)
       /\ w_info = << [epoch_secret |-> es, group_info |-> g] >>
  /\ w_calls = <<>>
  /\ w_out = {}
  /\ sctx = <<>> /\ senc = <<>> /\ sargs = NoArgs
  /\ rctx = <<>> /\ rargs = NoArgs
  /\ sealed = <<>> /\ opened = <<>> /\ result = IdleResult
  /\ ks_in = IdleKsIn /\ ks_out = IdleKsOut
  /\ ptx = IdlePt /\ pt_signed = <<>> /\ pt_ops = 0 /\ pt_ctor = "default"
  /\ wire = <<>> /\ decoded = <<>>
  /\ gi = IdleGi /\ gi_signed = <<>> /\ gi_result = IdleResult /\ gi_ops = 0

\* Welcome::encrypt(kp, path_secret), the KEM drawing the ephemeral key.
WEncrypt ==
  \E kp \in KeyPackages, path_secret \in PathSecrets, skE \in {TheEphemeral} :
    /\ Len(w_calls) < MaxSecrets
    /\ welcome' = Welcome_encrypt(welcome, kp, path_secret, skE)
    /\ w_calls' = Append(w_calls, kp)
    /\ UNCHANGED <<w_info, w_out>>
    /\ UNCHANGED nonWVars

\* Welcome::decrypt(epoch_secret)
WDecrypt ==
  \E es \in EpochSecrets :
    \E r \in {Welcome_decrypt(welcome, es)} :
      /\ w_out' = w_out \cup {[epoch_secret |-> es, ok |-> r.ok, err |-> r.err,
                                gi |-> r.gi]}
      /\ UNCHANGED <<welcome, w_info, w_calls>>
      /\ UNCHANGED nonWVars

NextW ==
  \/ WEncrypt
  \/ WDecrypt

SpecW == WInit /\ [][NextW]_vars

\* -------------------------------------------------- the codec machine

PaddingSizes == {0, 2}

\* Every kind of content: application data, the three proposals, a commit.
CodecContents ==
  Contents \cup {[type |-> ContentType_proposal, proposal_type |-> ProposalType_update,
                  data |-> <<120, 0>>]}

\* The plaintexts given to the encoders: each content, framed and signed or
\* not, with or without a confirmation tag and a membership tag.
CodecObjects ==
  {[MLSPlaintext_content(<<1>>, 1, s, c) EXCEPT
      !.authenticated_data = a,
      !.signature = IF signed THEN sig_sign(TheSuite, 3, <<c.type>>) ELSE <<>>,
      !.confirmation_tag = IF tagged THEN <<(<<77>>)>> ELSE <<>>,
      !.membership_tag = IF tagged /\ signed THEN <<(<<78, 0>>)>> ELSE <<>>] :
     c \in CodecContents, s \in Senders, a \in AuthData, signed \in BOOLEAN,
     tagged \in BOOLEAN}

\* An MLSPlaintext about to be encoded.
CodecInit ==
  /\ ptx \in CodecObjects
  /\ pt_ctor = "content"
  /\ wire = <<>>
  /\ decoded = <<>>
  /\ pt_signed = <<>> /\ pt_ops = 0
  /\ sctx = <<>> /\ senc = <<>> /\ sargs = NoArgs
  /\ rctx = <<>> /\ rargs = NoArgs
  /\ sealed = <<>> /\ opened = <<>> /\ result = IdleResult
  /\ ks_in = IdleKsIn /\ ks_out = IdleKsOut
  /\ gi = IdleGi /\ gi_signed = <<>> /\ gi_result = IdleResult /\ gi_ops = 0
  /\ welcome = IdleWelcome /\ w_info = <<>> /\ w_calls = <<>> /\ w_out = {}

\* MLSPlaintext::marshal_content(padding_size)
MarshalContent ==
  \E n \in PaddingSizes :
    /\ wire = <<>>
    /\ wire' = << [kind |-> "content", bytes |-> marshal_content(ptx, n),
                   padding_size |-> n, canonical |-> TRUE] >>
    /\ UNCHANGED <<ptx, decoded>>
    /\ UNCHANGED nonCodecVars

\* tls::marshal(MLSPlaintext)
Marshal ==
  /\ wire = <<>>
  /\ wire' = << [kind |-> "plaintext", bytes |-> MLSPlaintext_marshal(ptx),
                 padding_size |-> 0, canonical |-> TRUE] >>
  /\ UNCHANGED <<ptx, decoded>>
  /\ UNCHANGED nonCodecVars

\* The bytes reach the decoder changed into b.
Receive(b) ==
  /\ wire # <<>> /\ wire[1].canonical /\ decoded = <<>>
  /\ wire' = << [wire[1] EXCEPT !.bytes = b, !.canonical = FALSE] >>
  /\ UNCHANGED <<ptx, decoded>>
  /\ UNCHANGED nonCodecVars

\* A padding byte that is not zero.
FillPadding ==
  /\ wire # <<>> /\ wire[1].kind = "content" /\ wire[1].padding_size > 0
  /\ Receive([wire[1].bytes EXCEPT ![Len(wire[1].bytes)] = 1])

\* A byte after the padding.
AppendByte == wire # <<>> /\ wire[1].kind = "content" /\ Receive(wire[1].bytes \o <<0>>)

\* The last byte missing.
Truncate == wire # <<>> /\ Receive(SubSeq(wire[1].bytes, 1, Len(wire[1].bytes) - 1))

\* MLSPlaintext::MLSPlaintext(group_id, epoch, sender, content_type,
\* authenticated_data, content) on the bytes of marshal_content
DecodeContent ==
  /\ wire # <<>> /\ wire[1].kind = "content" /\ decoded = <<>>
  /\ \E r \in {MLSPlaintext_decrypted(ptx.group_id, ptx.epoch, ptx.sender, ptx.content.type,
                                      ptx.authenticated_data, wire[1].bytes)} :
       decoded' = << [ok |-> r.ok, err |-> r.err, pt |-> r.pt, rest |-> <<>>] >>
  /\ UNCHANGED <<ptx, wire>>
  /\ UNCHANGED nonCodecVars

\* tls::get<MLSPlaintext>(data)
Unmarshal ==
  /\ wire # <<>> /\ wire[1].kind = "plaintext" /\ decoded = <<>>
  /\ decoded' = << MLSPlaintext_unmarshal(wire[1].bytes) >>
  /\ UNCHANGED <<ptx, wire>>
  /\ UNCHANGED nonCodecVars

NextCodec ==
  \/ MarshalContent
  \/ Marshal
  \/ FillPadding
  \/ AppendByte
  \/ Truncate
  \/ DecodeContent
  \/ Unmarshal

SpecCodec == CodecInit /\ [][NextCodec]_vars

\* ----------------------------------------------------------- properties

\* C1: the n-th successful seal of a sender context (n from 0) runs the AEAD
\* under I2OSP(n, nonce_size) XOR nonce_base, seq counts the successful seals,
\* and no two returned ciphertexts were sealed under the same nonce.
C1_NonceSequence ==
  sctx # <<>> =>
    /\ sctx[1].seq = Len(sealed)
    /\ \A n \in 1..Len(sealed) :
         sealed[n].nonce = Xor(I2OSP(n - 1, Nn), sctx[1].nonce)
    /\ \A i, j \in 1..Len(sealed) : i # j => sealed[i].nonce # sealed[j].nonce

\* Three ciphertexts were returned by one sender context.
C1_Witness == sctx # <<>> /\ Len(sealed) >= 3 /\ sctx[1].seq = 3

\* C2: at seq = 2^w - 1 a seal or open fails with the overflow error, returns
\* nothing, and leaves the context unchanged (the counter never wraps); that
\* is the state after exactly 2^w - 1 successful seals.
C2_OverflowFails ==
  [][ /\ (sctx # <<>> /\ sctx[1].seq = SeqMax) =>
           /\ sctx' = sctx
           /\ sealed' = sealed
           /\ (result'.op = "seal" /\ result' # result) =>
                (~result'.ok /\ result'.err = "Sequence number overflow")
      /\ (rctx # <<>> /\ rctx[1].seq = SeqMax) =>
           /\ rctx' = rctx
           /\ opened' = opened
           /\ (result'.op = "open" /\ result' # result) =>
                (~result'.ok /\ result'.err = "Sequence number overflow")
      /\ (sctx # <<>> /\ Len(sealed) = SeqMax) => sctx[1].seq = SeqMax
      /\ (sctx # <<>> /\ sctx[1].seq < SeqMax /\ result'.op = "seal"
            /\ sctx' # sctx) => result'.ok
    ]_vars

\* A seal failed with the overflow error after 2^w - 1 successful seals.
C2_Witness ==
  /\ sctx # <<>> /\ sctx[1].seq = SeqMax /\ Len(sealed) = SeqMax
  /\ result = [op |-> "seal", ok |-> FALSE, err |-> "Sequence number overflow"]

\* The receiver's counters and key material agree with the sender's inputs.
Matching ==
  /\ sctx # <<>> /\ rctx # <<>>
  /\ rargs.mode = sargs.mode
  /\ dh_public(rargs.key) = sargs.key
  /\ rargs.info = sargs.info
  /\ rargs.psk = sargs.psk
  /\ rargs.psk_id = sargs.psk_id
  /\ (sargs.mode \in {Mode_auth, Mode_auth_psk}) => rargs.auth = dh_public(sargs.auth)

\* The first k opens were fed the first k ciphertexts of the sender, in order,
\* each with the aad it was sealed with.
FedInOrder(k) ==
  /\ k <= Len(sealed)
  /\ \A j \in 1..k : opened[j].ct = sealed[j].ct /\ opened[j].aad = sealed[j].aad

\* C3: in each mode, a receiver set up with the sender's enc and matching
\* inputs holds a context equal to the sender's, and when fed the sender's
\* ciphertexts in order with the same aad its k-th open returns the plaintext
\* of the k-th seal.
C3_RoundTrip ==
  Matching =>
    /\ ContextEq([sctx[1] EXCEPT !.seq = 0], [rctx[1] EXCEPT !.seq = 0])
    /\ (sealed = <<>> /\ opened = <<>>) => ContextEq(sctx[1], rctx[1])
    /\ \A k \in 1..Len(opened) : FedInOrder(k) => opened[k].pt = <<sealed[k].pt>>

\* In mode auth_psk two ciphertexts were opened in order.
C3_Witness ==
  /\ Matching
  /\ sargs.mode = Mode_auth_psk
  /\ Len(opened) >= 2
  /\ FedInOrder(2)
  /\ sealed[1].pt # sealed[2].pt

\* C4: every open made with seq below the maximum steps seq by one, whatever
\* the AEAD returned, so the n-th open (n from 0) uses I2OSP(n) XOR nonce_base.
C4_OpenAlwaysSteps ==
  rctx # <<>> =>
    /\ rctx[1].seq = Len(opened)
    /\ \A n \in 1..Len(opened) :
         opened[n].nonce = Xor(I2OSP(n - 1, Nn), rctx[1].nonce)

\* An open that returned absence was followed by one that returned a plaintext.
C4_Witness ==
  \E i, j \in 1..Len(opened) : i < j /\ opened[i].pt = <<>> /\ opened[j].pt # <<>>

\* The combinations of (mode, psk given, psk_id given) the PSK check accepts.
AcceptedPskInputs ==
  {<<Mode_base, FALSE, FALSE>>, <<Mode_auth, FALSE, FALSE>>,
   <<Mode_psk, TRUE, TRUE>>, <<Mode_auth_psk, TRUE, TRUE>>}

\* C5: verify_psk_inputs accepts exactly: both empty in modes base and auth,
\* both non-empty in modes psk and auth_psk; key_schedule fails with the
\* invalid-PSK-inputs error and returns no Context for every other combination.
C5_PskGating ==
  ks_out.called =>
    LET given == <<ks_in.mode, Len(ks_in.psk) > 0, Len(ks_in.psk_id) > 0>>
    IN  /\ ks_out.accepted = (given \in AcceptedPskInputs)
        /\ (given \notin AcceptedPskInputs) =>
             /\ ~ks_out.ks.ok
             /\ ks_out.ks.err = "Invalid PSK inputs"
             /\ ks_out.ks.ctx = <<>>
        /\ (given \in AcceptedPskInputs) => (ks_out.ks.ok /\ Len(ks_out.ks.ctx) = 1)

\* key_schedule rejected mode base with a psk and a psk_id both given.
C5_Witness ==
  /\ ks_out.called
  /\ ks_in.mode = Mode_base /\ ks_in.psk # <<>> /\ ks_in.psk_id # <<>>
  /\ ~ks_out.ks.ok

\* C6: verify_membership_tag returns true exactly when decrypted is set, or the
\* membership tag is present and equals the HMAC under mac_key of
\* to_be_signed(context) || len2(signature) || confirmation_tag of the current
\* fields; with decrypted false and no tag it returns false.
C6_MembershipTag ==
  \A gc \in GroupContexts, k \in MacKeys :
    /\ verify_membership_tag(ptx, TheSuite, gc, k) =
         \/ ptx.decrypted
         \/ /\ ptx.membership_tag # <<>>
            /\ ptx.membership_tag[1] =
                 hmac(TheSuite, k,
                      to_be_signed(ptx, gc) \o I2OSP(Len(ptx.signature), 2) \o ptx.signature
                        \o (IF ptx.confirmation_tag = <<>> THEN <<0>>
                            ELSE <<1, Len(ptx.confirmation_tag[1])>> \o ptx.confirmation_tag[1]))
    /\ (~ptx.decrypted /\ ptx.membership_tag = <<>>) =>
         ~verify_membership_tag(ptx, TheSuite, gc, k)

\* A signed plaintext with a confirmation tag carries a membership tag that
\* verifies under one key and context and under no other.
C6_Witness ==
  /\ ~ptx.decrypted /\ ptx.signature # <<>> /\ ptx.confirmation_tag # <<>>
  /\ ptx.membership_tag # <<>>
  /\ Cardinality({<<gc, k>> \in GroupContexts \X MacKeys :
                    verify_membership_tag(ptx, TheSuite, gc, k)}) = 1

\* C10: after sign(suite, context, priv), verify under priv's public key is
\* true while the signature and the signed message (group context, group_id,
\* epoch, sender, authenticated_data, content type and payload) are those of
\* the sign call, and false once any of them has changed.
C10_SignVerify ==
  pt_signed # <<>> =>
    LET s == pt_signed[1]
    IN  \A gc \in GroupContexts :
          verify(ptx, TheSuite, gc, sig_public_key(s.priv)) =
            /\ ptx.signature = s.p.signature
            /\ gc = s.context
            /\ ptx.group_id = s.p.group_id
            /\ ptx.epoch = s.p.epoch
            /\ ptx.sender = s.p.sender
            /\ ptx.authenticated_data = s.p.authenticated_data
            /\ ptx.content = s.p.content

\* A signed plaintext whose authenticated data then changed no longer verifies.
C10_Witness ==
  /\ pt_signed # <<>>
  /\ ptx.signature = pt_signed[1].p.signature
  /\ ptx.authenticated_data # pt_signed[1].p.authenticated_data
  /\ ptx.content = pt_signed[1].p.content
  /\ ~verify(ptx, TheSuite, pt_signed[1].context, sig_public_key(pt_signed[1].priv))


\* Two GroupInfo objects differ in a field that precedes the signature.
GiDiffer(a, b) ==
  \/ a.group_id # b.group_id
  \/ a.epoch # b.epoch
  \/ a.tree # b.tree
  \/ a.confirmed_transcript_hash # b.confirmed_transcript_hash
  \/ a.interim_transcript_hash # b.interim_transcript_hash
  \/ a.extensions # b.extensions
  \/ a.confirmation # b.confirmation
  \/ a.signer_index # b.signer_index

\* C7: the signature of a GroupInfo covers every field before it, extensions
\* included: once sign has succeeded, a GroupInfo that differs from the signed
\* one in any of group_id, epoch, tree, confirmed_transcript_hash,
\* interim_transcript_hash, extensions, confirmation or signer_index has a
\* different to_be_signed, and the signature does not verify for it.
C7_SignatureCoversAllFields ==
  gi_signed # <<>> =>
    LET s == gi_signed[1]
        other == [gi EXCEPT !.signature = s.signature]
    IN  GiDiffer(s, other) =>
          /\ GroupInfo_to_be_signed(other) # GroupInfo_to_be_signed(s)
          /\ ~GroupInfo_verify(other).val

\* C8 as stated: no two entries of secrets have the same key_package_hash.
C8_NoDuplicateHash ==
  \A i, j \in 1..Len(welcome.secrets) :
    i # j => welcome.secrets[i].key_package_hash # welcome.secrets[j].key_package_hash

\* C8 (amended): secrets holds one entry per encrypt call, in call order, the
\* i-th carrying the hash of the i-th call's key package; two entries share a
\* key_package_hash exactly when their calls were given key packages with the
\* same hash.
C8_OneEntryPerCall ==
  /\ Len(welcome.secrets) = Len(w_calls)
  /\ \A i \in 1..Len(w_calls) :
       welcome.secrets[i].key_package_hash = KeyPackageHash(w_calls[i])
  /\ \A i, j \in 1..Len(w_calls) :
       (welcome.secrets[i].key_package_hash = welcome.secrets[j].key_package_hash)
         = (KeyPackageHash(w_calls[i]) = KeyPackageHash(w_calls[j]))
  /\ (\A i, j \in 1..Len(w_calls) : i # j => w_calls[i] # w_calls[j]) => C8_NoDuplicateHash

C8_Witness ==
  /\ Len(w_calls) = MaxSecrets
  /\ \E i, j \in 1..Len(w_calls) : i # j /\ w_calls[i] = w_calls[j]
  /\ Len(welcome.secrets) = MaxSecrets

\* The AEAD open of the encrypted GroupInfo under the pair derived from
\* epoch_secret returns absence.
AeadAbsent(epoch_secret) ==
  LET kn == group_info_key_nonce(epoch_secret)
  IN  aead_open(kn.key, kn.nonce, <<>>, welcome.encrypted_group_info) = <<>>

\* C9: for a Welcome built from (suite, epoch_secret, group_info) and extended
\* by encrypt calls, decrypt with that epoch secret returns a GroupInfo whose
\* serialization is that of group_info; decrypt with an epoch secret whose
\* derived key and nonce make the AEAD open return absence fails with "Welcome
\* decryption failed" and returns no GroupInfo.
C9_DecryptRoundTrip ==
  \A o \in w_out :
    LET info == w_info[1]
    IN  /\ o.epoch_secret = info.epoch_secret =>
             /\ o.ok
             /\ o.gi # <<>>
             /\ GroupInfo_marshal(o.gi[1]) = GroupInfo_marshal(info.group_info)
        /\ AeadAbsent(o.epoch_secret) =>
             /\ ~o.ok
             /\ o.err = "Welcome decryption failed"
             /\ o.gi = <<>>
        /\ o.epoch_secret # info.epoch_secret => AeadAbsent(o.epoch_secret)

C9_Witness ==
  /\ welcome.secrets # <<>>
  /\ \E o \in w_out :
       /\ o.ok
       /\ o.epoch_secret = w_info[1].epoch_secret
       /\ o.gi[1].extensions # <<>>
       /\ o.gi[1].tree = TreeTwo
  /\ \E o \in w_out : ~o.ok /\ o.epoch_secret # w_info[1].epoch_secret

\* The members of an MLSPlaintext that marshal_content and the constructor for
\* decrypted content carry between them are the same in a and b.
SameContent(a, b) ==
  /\ a.content.type = b.content.type
  /\ a.content = b.content
  /\ a.signature = b.signature
  /\ a.confirmation_tag = b.confirmation_tag

\* The serialized members of an MLSPlaintext are the same in a and b.
SameOnWire(a, b) ==
  /\ SameContent(a, b)
  /\ a.group_id = b.group_id /\ a.epoch = b.epoch /\ a.sender = b.sender
  /\ a.authenticated_data = b.authenticated_data
  /\ a.membership_tag = b.membership_tag

\* The decoded object encodes to the bytes it was decoded from, for some
\* padding size where the encoder takes one.
Reencodes ==
  IF wire[1].kind = "content"
  THEN \E n \in 0..Len(wire[1].bytes) : marshal_content(decoded[1].pt[1], n) = wire[1].bytes
  ELSE MLSPlaintext_marshal(decoded[1].pt[1]) = wire[1].bytes

C12_DecryptedFlag ==
  /\ ptx.decrypted = (pt_ctor = "decrypted")
  /\ pt_signed # <<>> => pt_signed[1].p.decrypted = (pt_ctor = "decrypted")

C12_Witness ==
  /\ pt_ctor = "decrypted" /\ ptx.decrypted
  /\ pt_signed # <<>> /\ ptx.signature = pt_signed[1].p.signature
  /\ ptx.membership_tag # <<>>

\* The step is a call of GroupInfo::sign.
SignStep == gi_ops' = gi_ops + 1 /\ gi_result'.op = "sign" /\ gi_result'.at = gi_ops'

\* C13: sign(index, priv) fails with InvalidParameterError when the leaf at
\* index is blank or its credential key is not priv's public key, and then
\* leaves signer_index and signature as they were; otherwise it succeeds,
\* signer_index is index, the signature is over the to_be_signed that has the
\* new signer_index, and verify() returns true.
C13_SignFailures ==
  [][SignStep =>
       LET index == gi_result'.index
           priv == gi_result'.priv
           maybe_kp == key_package(gi.tree, index)
       IN  IF maybe_kp = <<>> \/ maybe_kp[1].credential_key # sig_public_key(priv)
           THEN /\ ~gi_result'.ok
                /\ gi_result'.kind = "InvalidParameterError"
                /\ gi'.signer_index = gi.signer_index
                /\ gi'.signature = gi.signature
                /\ gi' = gi
           ELSE /\ gi_result'.ok
                /\ gi'.signer_index = index
                /\ gi'.signature =
                     sig_sign(gi.suite, priv,
                              GroupInfo_to_be_signed([gi EXCEPT !.signer_index = index]))
                /\ GroupInfo_verify(gi').ok
                /\ GroupInfo_verify(gi').val]_vars

C13_Witness ==
  /\ gi_result.op = "sign" /\ ~gi_result.ok /\ gi_result.at = gi_ops
  /\ gi_result.err = "Bad key for index"
  /\ gi.signer_index = 1 /\ gi.signature # <<>>
  /\ GroupInfo_verify(gi).val

====
